---- MODULE Spec2Model ----
(***************************************************************************)
(* Simulated-annealing tuner of the A* freespace planner parameters        *)
(* (planning_tuning_tools/scripts/astar_tuning_tools/simulated_annealing). *)
(*                                                                         *)
(* Numbers.  Field values, mins and maxs are fixed-point integers counting *)
(* units of 1/Scale; raw deltas are integers counting units of 1/DiffDen.  *)
(* With Scale = 20 * DiffDen the product delta * (max - min) / 20 is exact.*)
(* Energies and temperatures are exact rationals <<numerator, denominator>>*)
(* in lowest terms.                                                        *)
(*                                                                         *)
(* Objects.  Python variables hold references.  heap maps an object        *)
(* identity to its attribute values; param_obj, current_params,            *)
(* neighbor_params and best_param hold identities, so two names of one     *)
(* object see each other's writes.                                         *)
(***************************************************************************)
EXTENDS Integers, Sequences, FiniteSets, TLC

----------------------------------------------------------------------------
(* Bounds of the model *)

\* largest iteration budget passed to simulated_annealing
MaxIter == 2
\* direct increment calls made after the search has returned
MaxCalls == 1
\* direct increment calls made on freshly constructed groups
MaxDirectCalls == 2
\* longest validation set of the search specification
MaxScenarios == 1
\* longest validation set of the evaluator specification
MaxEvalScenarios == 5
\* raw deltas are multiples of 1/DiffDen
DiffDen == 2

(* Program constants *)

\* normalize: diff * param_range / 20
NormDivisor == 20
\* objective_function: return 1000
FailCost == 1000
\* objective_function: 10 * unsuccess_rate + ... + 10 * average_forward_backward_change
Weight == 10

Scale == NormDivisor * DiffDen

\* a configuration number in fixed point
Fx(x) == x * Scale

----------------------------------------------------------------------------
(* Exact rationals *)

Abs(x) == IF x < 0 THEN -x ELSE x

RECURSIVE GCD(_, _)
GCD(a, b) == IF b = 0 THEN a ELSE GCD(b, a % b)

\* n / d in lowest terms, d # 0
Rat(n, d) ==
    LET s == IF d < 0 THEN -1 ELSE 1
        g == GCD(Abs(n), Abs(d))
    IN  <<(s * n) \div g, (s * d) \div g>>

RatInt(n) == <<n, 1>>
RatAdd(a, b) == Rat(a[1] * b[2] + b[1] * a[2], a[2] * b[2])
RatSub(a, b) == Rat(a[1] * b[2] - b[1] * a[2], a[2] * b[2])
RatMulInt(k, a) == Rat(k * a[1], a[2])
RatDivInt(a, k) == Rat(a[1], a[2] * k)
RatDiv(a, b) == Rat(a[1] * b[2], a[2] * b[1])
RatLess(a, b) == a[1] * b[2] < b[1] * a[2]
RatLeq(a, b) == a[1] * b[2] <= b[1] * a[2]

\* the outcome of a Python expression: a value, or an exception raised
Return(v) == [exc |-> "none", value |-> v]
Raise(e) == [exc |-> e, value |-> RatInt(0)]

----------------------------------------------------------------------------
(* Configuration (optimization_config.yaml): per group an ordered mapping  *)
(* key -> {initial, use_optimization, min, max}                            *)

Fc(k, init, use, lo, hi) ==
    [key |-> k, initial |-> init, use_optimization |-> use, min |-> lo, max |-> hi]

Groups == {"planner_var", "astar_var", "vehicle_var"}

\* the three structured objects made in SimulatedAnnealing.__init__
ObjOf(g) ==
    CASE g = "planner_var" -> "PlannerCommonParam"
      [] g = "astar_var"   -> "AstarParam"
      [] g = "vehicle_var" -> "VehicleShape"

ConfigKey(g) ==
    CASE g = "planner_var" -> "planner_param"
      [] g = "astar_var"   -> "astar_param"
      [] g = "vehicle_var" -> "vehicle_shape"

PlannerConfigs ==
    { <<Fc("curve_weight", 10, TRUE, 0, 20), Fc("theta_size", 5, FALSE, 0, 10)>>,
      <<Fc("curve_weight", 25, TRUE, 0, 20), Fc("theta_size", 5, FALSE, 0, 10)>>,
      <<Fc("curve_weight", 10, TRUE, 20, 0), Fc("theta_size", 5, FALSE, 0, 10)>> }

AstarConfigs ==
    { <<Fc("distance_heuristic_weight", 2, TRUE, 0, 2)>> }

VehicleConfigs ==
    { <<Fc("length", 4, FALSE, 0, 10)>> }

AllConfigs ==
    { [planner_param |-> p, astar_param |-> a, vehicle_shape |-> v] :
        p \in PlannerConfigs, a \in AstarConfigs, v \in VehicleConfigs }

----------------------------------------------------------------------------
(* OptimizationVariable *)

\* variant: every key is recorded as optimizable
IsOptimized_All(param_config) == TRUE

\* __init__: if param_config["use_optimization"]
IsOptimized(param_config) == param_config.use_optimization

\* __init__: the attributes set on param_obj, setattr(param_obj, key, initial)
ConstructedObj(config_dict) ==
    [k \in {config_dict[i].key : i \in 1..Len(config_dict)} |->
        LET i == CHOOSE j \in 1..Len(config_dict) : config_dict[j].key = k
        IN  Fx(config_dict[i].initial)]

\* __init__: the group's fields; param_obj is the identity of the wrapped object
OptimizationVariable(obj, config_dict) ==
    LET used == SelectSeq(config_dict, IsOptimized)
    IN  [param_obj |-> obj,
         use_attrs |-> [i \in 1..Len(used) |-> used[i].key],
         mins      |-> [i \in 1..Len(used) |-> Fx(used[i].min)],
         maxs      |-> [i \in 1..Len(used) |-> Fx(used[i].max)],
         N         |-> Len(used)]

\* variant: only the lower bound is enforced
Clip_NoUpper(a, lo, hi) == IF a < lo THEN lo ELSE a

\* np.clip(a, lo, hi) = minimum(maximum(a, lo), hi)
Clip(a, lo, hi) ==
    LET m == IF a < lo THEN lo ELSE a
    IN  IF m > hi THEN hi ELSE m

\* variant: diff * param_range / 10
normalize_Div10(var, diff) ==
    [i \in 1..var.N |-> (2 * diff[i] * (var.maxs[i] - var.mins[i])) \div Scale]

\* normalize: diff * (maxs - mins) / 20, in fixed point
normalize(var, diff) ==
    [i \in 1..var.N |-> (diff[i] * (var.maxs[i] - var.mins[i])) \div Scale]

\* increment, the loop over use_attrs: attribute i of the object named by
\* param_obj_tmp is read, moved, clipped and written back
RECURSIVE IncrementLoop(_, _, _, _, _)
IncrementLoop(h, var, param_obj_tmp, diff_normalized, i) ==
    IF i > Len(var.use_attrs) THEN h
    ELSE LET attr == var.use_attrs[i]
             curr_value == h[param_obj_tmp][attr]
             updated_value ==
                 Clip(curr_value + diff_normalized[i], var.mins[i], var.maxs[i])
             h2 == [h EXCEPT ![param_obj_tmp][attr] = updated_value]
         IN  IncrementLoop(h2, var, param_obj_tmp, diff_normalized, i + 1)

\* increment(diff, update): the heap and the group after the call, and the
\* reference returned.  param_obj_tmp = self.param_obj binds a second name
\* to the stored object; no object is created.
increment(h, var, diff, update) ==
    LET param_obj_tmp == var.param_obj
    IN  [heap |-> IncrementLoop(h, var, param_obj_tmp, normalize(var, diff), 1),
         var  |-> IF update THEN [var EXCEPT !.param_obj = param_obj_tmp] ELSE var,
         ret  |-> param_obj_tmp]

get_param(var) == var.param_obj

----------------------------------------------------------------------------
(* The planner collaborator (fp.AstarSearch) and the validation scenarios  *)

\* TestData: the goal position of the scenario; start_pose = Pose() is (0, 0)
Goals == { <<0, 0>>, <<6, 8>> }

\* the goal of the scenarios of the search specification
SearchGoals == { <<6, 8>> }

TestData(goal) == [goal_pose |-> goal]

\* what one makePlan call does: it returns True ("found") and getWaypoints
\* then gives a path of compute_length() = length and the listed is_back
\* flags, or it returns False ("not_found"), or it raises RuntimeError
FoundPlans ==
    { [kind |-> "found", length |-> 10, is_back |-> <<FALSE, FALSE>>],
      [kind |-> "found", length |-> 12, is_back |-> <<FALSE, TRUE>>],
      [kind |-> "found", length |-> 11, is_back |-> <<FALSE, TRUE, FALSE>>] }

NoPlan(k) == [kind |-> k, length |-> 0, is_back |-> <<>>]

PlannerOutcomes == FoundPlans \cup { NoPlan("not_found"), NoPlan("RuntimeError") }

\* the planner behaviours of the search specification: one path, no path,
\* a runtime failure
SearchOutcomes ==
    { o \in PlannerOutcomes : o.kind = "found" => o.length = 12 }

\* the sequences over S of length at most n
SeqsUpTo(S, n) == UNION { [1..k -> S] : k \in 0..n }

\* math.hypot on the goal offsets of the model, all of which have an
\* integer length
Hypot(x, y) == CHOOSE r \in 0..(Abs(x) + Abs(y)) : r * r = x * x + y * y

----------------------------------------------------------------------------
(* SimulatedAnnealing.objective_function *)

\* variant: no except clause, the RuntimeError leaves objective_function
MakePlanTry_NoExcept(outcome) ==
    IF outcome.kind = "RuntimeError"
    THEN [exc |-> "RuntimeError", find |-> FALSE]
    ELSE [exc |-> "none", find |-> FALSE]

\* variant: no else clause, find keeps what makePlan returned
MakePlanTry_KeepsFind(outcome) ==
    [exc |-> "none", find |-> outcome.kind = "found"]

\* try: find = astar.makePlan(...)  except RuntimeError: find = False
\* else: find = False
MakePlanTry(outcome) ==
    IF outcome.kind = "RuntimeError"
    THEN [exc |-> "none", find |-> FALSE]
    ELSE [exc |-> "none", find |-> FALSE]

\* count_forward_backward_change, the loop over waypoints.waypoints
RECURSIVE CountLoop(_, _, _, _)
CountLoop(is_back, i, pre_is_back, count) ==
    IF i > Len(is_back) THEN count
    ELSE CountLoop(is_back, i + 1, is_back[i],
                   IF is_back[i] # pre_is_back THEN count + 1 ELSE count)

count_forward_backward_change(is_back) ==
    IF Len(is_back) # 0 THEN CountLoop(is_back, 1, is_back[1], 0) ELSE 0

\* the accumulators before the first scenario
EvalStart ==
    [exc |-> "none", total_result |-> 0, total_length_rate |-> RatInt(0),
     total_direction_change |-> 0, make_plan_calls |-> 0]

\* one pass of the loop body for one scenario
LoopBody(called, try, L2_dist, outcome) ==
    IF try.exc # "none" THEN [called EXCEPT !.exc = try.exc]
    ELSE IF try.find
    THEN [called EXCEPT
            !.total_result = @ + 1,
            !.total_length_rate =
                IF L2_dist # 0 THEN RatAdd(@, Rat(outcome.length, L2_dist)) ELSE @,
            !.total_direction_change =
                @ + count_forward_backward_change(outcome.is_back)]
    ELSE called

ScenarioStep(acc, test_data, outcome) ==
    LoopBody([acc EXCEPT !.make_plan_calls = @ + 1], MakePlanTry(outcome),
             Hypot(test_data.goal_pose[1] - 0, test_data.goal_pose[2] - 0), outcome)

\* for test_data in self.val_data_set; an exception leaves the loop
RECURSIVE EvalLoop(_, _, _, _)
EvalLoop(acc, data_set, outcomes, i) ==
    IF i > Len(data_set) \/ acc.exc # "none" THEN acc
    ELSE EvalLoop(ScenarioStep(acc, data_set[i], outcomes[i]), data_set, outcomes, i + 1)

\* the success branch: 10 * unsuccess_rate + average_length_rate
\*                     + 10 * average_forward_backward_change
SuccessCost(total_result, total_length_rate, total_direction_change, N) ==
    IF N = 0 \/ total_result = 0 THEN Raise("ZeroDivisionError")
    ELSE LET unsuccess_rate == RatSub(RatInt(1), Rat(total_result, N))
             average_length_rate == RatDivInt(total_length_rate, total_result)
             average_forward_backward_change == Rat(total_direction_change, total_result)
         IN  Return(RatAdd(RatAdd(RatMulInt(Weight, unsuccess_rate), average_length_rate),
                           RatMulInt(Weight, average_forward_backward_change)))

\* variant: the branch is taken on N != 0 instead of total_result != 0
Aggregate_GuardN(total_result, total_length_rate, total_direction_change, N) ==
    IF N # 0
    THEN SuccessCost(total_result, total_length_rate, total_direction_change, N)
    ELSE Return(RatInt(FailCost))

\* N = len(self.val_data_set); if total_result != 0: ... else: return 1000
Aggregate(total_result, total_length_rate, total_direction_change, N) ==
    IF total_result # 0
    THEN SuccessCost(total_result, total_length_rate, total_direction_change, N)
    ELSE Return(RatInt(FailCost))

\* the statements after the loop, on the accumulators acc the loop left
AfterLoop(acc, res) ==
    [exc |-> res.exc, value |-> res.value,
     total_result |-> acc.total_result,
     make_plan_calls |-> acc.make_plan_calls]

Finish(acc, N) ==
    AfterLoop(acc, IF acc.exc # "none" THEN Raise(acc.exc)
                   ELSE Aggregate(acc.total_result, acc.total_length_rate,
                                  acc.total_direction_change, N))

\* objective_function(params) on a validation set, the planner behaving as
\* outcomes[i] on scenario i: the value returned or the exception raised,
\* with the accumulators and the number of makePlan calls made
objective_function(data_set, outcomes) ==
    Finish(EvalLoop(EvalStart, data_set, outcomes, 1), Len(data_set))

\* What the planner did during one objective_function call, as seen at the
\* planner: the scenarios it reported found (found_at_start: those of them
\* whose goal is the start position) and those it raised on, and over the
\* found ones the sum of path length / straight-line distance (where that
\* distance is not zero) and the sum of direction changes of the path
TallyStep(tally, L2_dist, outcome) ==
    IF outcome.kind = "found"
    THEN [tally EXCEPT
            !.found = @ + 1,
            !.found_at_start = IF L2_dist = 0 THEN @ + 1 ELSE @,
            !.length_rates =
                IF L2_dist # 0 THEN RatAdd(@, Rat(outcome.length, L2_dist)) ELSE @,
            !.direction_changes = @ + count_forward_backward_change(outcome.is_back)]
    ELSE IF outcome.kind = "RuntimeError"
    THEN [tally EXCEPT !.raised = @ + 1]
    ELSE tally

RECURSIVE PlannerTally(_, _, _, _)
PlannerTally(tally, data_set, outcomes, i) ==
    IF i > Len(outcomes) THEN tally
    ELSE PlannerTally(
             TallyStep(tally, Hypot(data_set[i].goal_pose[1], data_set[i].goal_pose[2]),
                       outcomes[i]),
             data_set, outcomes, i + 1)

NoTally == [found |-> 0, found_at_start |-> 0, raised |-> 0, length_rates |-> RatInt(0),
            direction_changes |-> 0]

NoEval == [planner |-> NoTally, exc |-> "not_called", value |-> RatInt(0),
           total_result |-> 0, make_plan_calls |-> 0]

\* the record kept of an objective_function call
EvalRecord(data_set, outcomes, r) ==
    [planner |-> PlannerTally(NoTally, data_set, outcomes, 1),
     exc |-> r.exc, value |-> r.value,
     total_result |-> r.total_result, make_plan_calls |-> r.make_plan_calls]

----------------------------------------------------------------------------
(* SimulatedAnnealing: state *)

VARIABLES
    all_config,          \* the loaded optimization_config.yaml
    val_data_set,        \* self.val_data_set
    heap,                \* attribute values of the three parameter objects
    opt_var,             \* self.planner_var, self.astar_var, self.vehicle_var
    best_param,          \* self.best_param
    best_energy,         \* self.best_energy
    pc,                  \* position of simulated_annealing
    initial_temperature, \* arguments of simulated_annealing
    iterations,
    t,                   \* loop variable
    current_params,      \* locals of simulated_annealing
    current_energy,
    neighbor_params,
    result,              \* what simulated_annealing returned
    error,               \* the exception that ended the run, if any
    last_eval,           \* the latest objective_function call
    n_eval,              \* objective_function calls made
    n_make_plan,         \* makePlan calls made
    last_call,           \* the latest direct increment call and its result
    n_calls,             \* direct increment calls made
    incremented,         \* history: the groups increment has been called on
    best_seen,           \* history: the attribute values the assignment held in
                         \* best_param had when objective_function evaluated it
    temperature,         \* local of simulated_annealing
    evaluated,           \* history: the attribute values of the assignment passed
                         \* to the latest objective_function call
    branches,            \* history: the branches the latest iteration took
    last_test            \* the latest direct evaluation of the acceptance condition

vars == <<all_config, val_data_set, heap, opt_var, best_param, best_energy, pc,
          initial_temperature, iterations, t, current_params, current_energy,
          neighbor_params, result, error, last_eval, n_eval, n_make_plan,
          last_call, n_calls, incremented, best_seen, temperature, evaluated,
          branches, last_test>>

\* Python's None
None == <<>>

NoCall == [group |-> "none", diff |-> <<>>, update |-> FALSE, ret |-> "none"]

\* a float that is not a number
NaN == <<0, 0>>

NoTest == [T0 |-> RatInt(0), t |-> 0, temperature |-> RatInt(0),
           current_energy |-> RatInt(0), neighbor_energy |-> RatInt(0),
           draw |-> RatInt(0), exc |-> "not_called", accept |-> FALSE,
           exponent |-> None]

\* SimulatedAnnealing.__init__
InitWith(configs, data_sets) ==
    /\ all_config \in configs
    /\ val_data_set \in data_sets
    /\ heap = [o \in {ObjOf(g) : g \in Groups} |->
                 LET g == CHOOSE x \in Groups : ObjOf(x) = o
                 IN  ConstructedObj(all_config[ConfigKey(g)])]
    /\ opt_var = [g \in Groups |-> OptimizationVariable(ObjOf(g), all_config[ConfigKey(g)])]
    /\ best_param = None
    /\ best_energy = None
    /\ pc = "idle"
    /\ initial_temperature = RatInt(0)
    /\ iterations = 0
    /\ t = 0
    /\ current_params = None
    /\ current_energy = None
    /\ neighbor_params = None
    /\ result = None
    /\ error = "none"
    /\ last_eval = NoEval
    /\ n_eval = 0
    /\ n_make_plan = 0
    /\ last_call = NoCall
    /\ n_calls = 0
    /\ incremented = {}
    /\ best_seen = None
    /\ temperature = None
    /\ evaluated = None
    /\ branches = {}
    /\ last_test = NoTest

DataSets(n) == SeqsUpTo({TestData(g) : g \in Goals}, n)

Init == InitWith(AllConfigs, SeqsUpTo({TestData(g) : g \in SearchGoals}, MaxScenarios))

\* the planner's behaviour on each scenario of one objective_function call
OutcomesFor(data_set, behaviours) == [1..Len(data_set) -> behaviours]

----------------------------------------------------------------------------
(* Direct calls of OptimizationVariable.increment *)

\* np.random.uniform(-1, 1): a value of [-1, 1)
RawDeltas == {-DiffDen, -1, 1}

\* deltas a caller may pass: also +1 and +50
CallDeltas == RawDeltas \cup {DiffDen, 50 * DiffDen}

IncrementCall(g, diff, update) ==
    /\ \E r \in {increment(heap, opt_var[g], diff, update)} :
           /\ heap' = r.heap
           /\ opt_var' = [opt_var EXCEPT ![g] = r.var]
           /\ last_call' = [group |-> g, diff |-> diff, update |-> update, ret |-> r.ret]
    /\ n_calls' = n_calls + 1
    /\ incremented' = incremented \cup {g}
    /\ UNCHANGED <<all_config, val_data_set, best_param, best_energy, pc,
                   initial_temperature, iterations, t, current_params, current_energy,
                   neighbor_params, result, error, last_eval, n_eval, n_make_plan,
                   best_seen, temperature, evaluated, branches, last_test>>

----------------------------------------------------------------------------
(* SimulatedAnnealing.simulated_annealing *)

\* initial_temperature: zero, the value main passes
Temperatures == {RatInt(0), RatInt(200)}

\* random.random(): a value u of [0, 1), with ln the point where exp crosses
\* it: u < exp(x) exactly when ln < x.  For u = 0 that is the point below
\* which the floating-point exp gives 0.0; for u = 1/2 it is -ln 2.
Draws == { [u |-> Rat(0, 1), ln |-> Rat(-745, 1)],
           [u |-> Rat(1, 2), ln |-> Rat(-6931, 10000)] }

\* variant: no cooling, return T0
cooling_schedule_Flat(i, T0) == T0

\* return T0 / (1 + t); a NaN divided is a NaN
cooling_schedule(i, T0) == IF T0 = NaN THEN NaN ELSE RatDivInt(T0, 1 + i)

\* math.exp raises OverflowError above this argument (about 709.78)
ExpMax == Rat(70978, 100)

\* math.exp(...) reached with argument x = (current_energy - neighbor_energy)
\* / temperature, and random.random() < that value.  A NaN temperature
\* makes the argument and the exponential NaN, and no float is below NaN.
ExpTest(x, draw) ==
    IF x = NaN THEN [exc |-> "none", accept |-> FALSE, exponent |-> x]
    ELSE IF RatLess(ExpMax, x) THEN [exc |-> "OverflowError", accept |-> FALSE, exponent |-> x]
    ELSE [exc |-> "none", accept |-> RatLess(draw.ln, x), exponent |-> x]

\* (current_energy - neighbor_energy) / temperature
Exponent(neighbor_energy, cur_energy, temp) ==
    IF temp = NaN THEN Return(NaN)
    ELSE IF temp[1] = 0 THEN Raise("ZeroDivisionError")
    ELSE Return(RatDiv(RatSub(cur_energy, neighbor_energy), temp))

\* the second disjunct of the condition
SecondDisjunct(x, draw) ==
    IF x.exc # "none" THEN [exc |-> x.exc, accept |-> FALSE, exponent |-> None]
    ELSE ExpTest(x.value, draw)

\* variant: every neighbor is accepted
AcceptTest_Always(neighbor_energy, cur_energy, temp, draw) ==
    [exc |-> "none", accept |-> TRUE, exponent |-> None]

\* variant: only neighbor_energy < current_energy
AcceptTest_ImprovingOnly(neighbor_energy, cur_energy, temp, draw) ==
    [exc |-> "none", accept |-> RatLess(neighbor_energy, cur_energy), exponent |-> None]

\* variant: the exponential is evaluated before the comparison of the energies
AcceptTest_NoShortCircuit(neighbor_energy, cur_energy, temp, draw) ==
    LET second == SecondDisjunct(Exponent(neighbor_energy, cur_energy, temp), draw)
    IN  [second EXCEPT !.accept = second.exc = "none"
                                    /\ (RatLess(neighbor_energy, cur_energy) \/ @)]

\* the condition of the if: neighbor_energy < current_energy or
\* random.random() < math.exp((current_energy - neighbor_energy) / temperature);
\* the second disjunct is reached only when the first is false.  exponent
\* is the argument math.exp was called with, None when it was not called.
AcceptTest(neighbor_energy, cur_energy, temp, draw) ==
    IF RatLess(neighbor_energy, cur_energy)
    THEN [exc |-> "none", accept |-> TRUE, exponent |-> None]
    ELSE SecondDisjunct(Exponent(neighbor_energy, cur_energy, temp), draw)

\* the three increment calls of one list display, in order
GroupOrder == <<"planner_var", "astar_var", "vehicle_var">>

\* the effect of one more increment call r, on group g, after those of acc
AfterCall(acc, g, r) ==
    [heap    |-> r.heap,
     opt_var |-> [acc.opt_var EXCEPT ![g] = r.var],
     params  |-> Append(acc.params, r.ret)]

RECURSIVE IncrementFrom(_, _, _, _)
IncrementFrom(acc, diffs, update, i) ==
    IF i > Len(GroupOrder) THEN acc
    ELSE IncrementFrom(
             AfterCall(acc, GroupOrder[i],
                       increment(acc.heap, acc.opt_var[GroupOrder[i]], diffs[i], update)),
             diffs, update, i + 1)

IncrementAll(h, ov, diffs, update) ==
    IncrementFrom([heap |-> h, opt_var |-> ov, params |-> <<>>], diffs, update, 1)

\* np.random.uniform(-1, 1, N) for each group
DiffsFor(ov) ==
    { <<p, a, v>> : p \in [1..ov["planner_var"].N -> RawDeltas],
                    a \in [1..ov["astar_var"].N -> RawDeltas],
                    v \in [1..ov["vehicle_var"].N -> RawDeltas] }

\* variant: best_energy starts at infinity (<<1, 0>>) instead of the evaluated cost
BestInit_Inf(params, energy) == [best_param |-> params, best_energy |-> <<1, 0>>]

\* self.best_param = current_params; self.best_energy = current_energy
BestInit(params, energy) == [best_param |-> params, best_energy |-> energy]

\* variant: range(iterations + 1)
LoopContinues_Inclusive(i, n) == i <= n

\* variant: range(1, iterations)
LoopContinues_FromOne(i, n) == i + 1 < n

\* for t in range(iterations)
LoopContinues(i, n) == i < n

\* the attribute values of the objects an assignment refers to
ValuesOf(h, params) == [i \in 1..Len(params) |-> h[params[i]]]

\* the call up to the loop: the initial assignment is read and evaluated
SAStart(T0, iters, outcomes) ==
    /\ pc = "idle"
    /\ initial_temperature' = T0
    /\ iterations' = iters
    /\ \E params \in {<<get_param(opt_var["planner_var"]), get_param(opt_var["astar_var"]),
                         get_param(opt_var["vehicle_var"])>>},
          r \in {objective_function(val_data_set, outcomes)} :
           /\ current_params' = params
           /\ last_eval' = EvalRecord(val_data_set, outcomes, r)
           /\ n_eval' = n_eval + 1
           /\ n_make_plan' = n_make_plan + r.make_plan_calls
           /\ IF r.exc # "none"
              THEN /\ pc' = "aborted"
                   /\ error' = r.exc
                   /\ UNCHANGED <<current_energy, best_param, best_energy, best_seen>>
              ELSE /\ pc' = "loop"
                   /\ current_energy' = r.value
                   /\ best_param' = BestInit(params, r.value).best_param
                   /\ best_energy' = BestInit(params, r.value).best_energy
                   /\ best_seen' = ValuesOf(heap, params)
                   /\ UNCHANGED error
           /\ evaluated' = ValuesOf(heap, params)
    /\ t' = 0
    /\ UNCHANGED <<all_config, val_data_set, heap, opt_var, neighbor_params, result,
                   last_call, n_calls, incremented, temperature, branches, last_test>>

\* one pass of the loop body
SAIterate(diffs, outcomes, draw) ==
    /\ pc = "loop"
    /\ LoopContinues(t, iterations)
    /\ \E temp \in {cooling_schedule(t, initial_temperature)},
          nb \in {IncrementAll(heap, opt_var, diffs, FALSE)},
          r \in {objective_function(val_data_set, outcomes)} :
         \E neighbor_energy \in {r.value} :
         \E test \in {AcceptTest(neighbor_energy, current_energy, temp, draw)},
            cm \in {IncrementAll(nb.heap, nb.opt_var, diffs, TRUE)} :
           /\ temperature' = temp
           /\ neighbor_params' = nb.params
           /\ evaluated' = ValuesOf(nb.heap, nb.params)
           /\ last_eval' = EvalRecord(val_data_set, outcomes, r)
           /\ n_eval' = n_eval + 1
           /\ n_make_plan' = n_make_plan + r.make_plan_calls
           /\ IF r.exc # "none" \/ test.exc # "none"
              THEN /\ pc' = "aborted"
                   /\ error' = IF r.exc # "none" THEN r.exc ELSE test.exc
                   /\ heap' = nb.heap
                   /\ opt_var' = nb.opt_var
                   /\ branches' = {}
                   /\ UNCHANGED <<current_params, current_energy, best_param,
                                  best_energy, t, best_seen>>
              ELSE IF test.accept
              THEN /\ heap' = cm.heap
                   /\ opt_var' = cm.opt_var
                   /\ current_params' = cm.params
                   /\ current_energy' = neighbor_energy
                   /\ IF RatLess(neighbor_energy, best_energy)
                      THEN /\ best_param' = nb.params
                           /\ best_energy' = neighbor_energy
                           /\ best_seen' = ValuesOf(nb.heap, nb.params)
                           /\ branches' = {"accept", "best"}
                      ELSE /\ branches' = {"accept"}
                           /\ UNCHANGED <<best_param, best_energy, best_seen>>
                   /\ t' = t + 1
                   /\ UNCHANGED <<pc, error>>
              ELSE /\ heap' = nb.heap
                   /\ opt_var' = nb.opt_var
                   /\ branches' = {"reject"}
                   /\ t' = t + 1
                   /\ UNCHANGED <<current_params, current_energy, best_param,
                                  best_energy, pc, error, best_seen>>
    /\ incremented' = Groups
    /\ UNCHANGED <<all_config, val_data_set, initial_temperature, iterations, result,
                   last_call, n_calls, last_test>>

\* return self.best_param, self.best_energy
SAReturn ==
    /\ pc = "loop"
    /\ ~LoopContinues(t, iterations)
    /\ result' = <<best_param, best_energy>>
    /\ pc' = "done"
    /\ UNCHANGED <<all_config, val_data_set, heap, opt_var, best_param, best_energy,
                   initial_temperature, iterations, t, current_params, current_energy,
                   neighbor_params, error, last_eval, n_eval, n_make_plan, last_call,
                   n_calls, incremented, best_seen, temperature, evaluated, branches,
                   last_test>>

Next ==
    \/ /\ pc = "done"
       /\ n_calls < MaxCalls
       /\ \E g \in Groups, update \in BOOLEAN :
            \E diff \in [1..opt_var[g].N -> RawDeltas] : IncrementCall(g, diff, update)
    \/ \E T0 \in Temperatures, iters \in 0..MaxIter :
         \E outcomes \in OutcomesFor(val_data_set, SearchOutcomes) : SAStart(T0, iters, outcomes)
    \/ \E diffs \in DiffsFor(opt_var), draw \in Draws :
         \E outcomes \in OutcomesFor(val_data_set, SearchOutcomes) : SAIterate(diffs, outcomes, draw)
    \/ SAReturn

Spec == Init /\ [][Next]_vars

----------------------------------------------------------------------------
(* The search alone: one call of simulated_annealing, on more initial      *)
(* temperatures                                                            *)

\* initial_temperature is a float: also a small one and one that is not a
\* number
SearchTemperatures == Temperatures \cup {RatInt(1), NaN}

NextSearch ==
    \/ \E T0 \in SearchTemperatures, iters \in 0..MaxIter :
         \E outcomes \in OutcomesFor(val_data_set, SearchOutcomes) : SAStart(T0, iters, outcomes)
    \/ \E diffs \in DiffsFor(opt_var), draw \in Draws :
         \E outcomes \in OutcomesFor(val_data_set, SearchOutcomes) : SAIterate(diffs, outcomes, draw)
    \/ SAReturn

SpecSearch == Init /\ [][NextSearch]_vars

----------------------------------------------------------------------------
(* The evaluator alone: objective_function applied once to the assignment  *)
(* the groups hold, on every validation set and planner behaviour         *)

ObjectiveCall(outcomes) ==
    /\ pc = "idle"
    /\ last_eval = NoEval
    /\ \E r \in {objective_function(val_data_set, outcomes)} :
           /\ last_eval' = EvalRecord(val_data_set, outcomes, r)
           /\ n_make_plan' = n_make_plan + r.make_plan_calls
           /\ error' = r.exc
    /\ n_eval' = n_eval + 1
    /\ evaluated' = [i \in 1..Len(GroupOrder) |-> heap[get_param(opt_var[GroupOrder[i]])]]
    /\ UNCHANGED <<all_config, val_data_set, heap, opt_var, best_param, best_energy, pc,
                   initial_temperature, iterations, t, current_params, current_energy,
                   neighbor_params, result, last_call, n_calls, incremented, best_seen,
                   temperature, branches, last_test>>

\* validation sets with at most one scenario whose goal is the start position
EvalDataSets(n) ==
    { d \in DataSets(n) :
        Cardinality({i \in 1..Len(d) : d[i].goal_pose = <<0, 0>>}) <= 1 }

\* the assignment evaluated is that of one configuration: the evaluator reads
\* no attribute of it, the planner's behaviour is an input of its own
InitObjective ==
    InitWith({c \in AllConfigs : c.planner_param[1].initial = 10 /\ c.planner_param[1].min = 0},
             EvalDataSets(MaxEvalScenarios))

NextObjective == \E outcomes \in OutcomesFor(val_data_set, PlannerOutcomes) : ObjectiveCall(outcomes)

SpecObjective == InitObjective /\ [][NextObjective]_vars

----------------------------------------------------------------------------
(* The parameter groups alone: increment called on freshly constructed     *)
(* groups, any group, any deltas, committing or not                        *)

InitIncrement == InitWith(AllConfigs, DataSets(0))

NextIncrement ==
    /\ pc = "idle"
    /\ n_calls < MaxDirectCalls
    /\ \E g \in Groups, update \in BOOLEAN :
         \E diff \in [1..opt_var[g].N -> CallDeltas] : IncrementCall(g, diff, update)

SpecIncrement == InitIncrement /\ [][NextIncrement]_vars

----------------------------------------------------------------------------
(* The acceptance condition alone: the temperature of iteration i and the  *)
(* condition of the if, evaluated once on any pair of costs and any draw   *)

\* costs objective_function can return: a straight path found everywhere,
\* a longer path with a direction change, nothing found
Energies == {RatInt(1), Rat(56, 5), RatInt(FailCost)}

\* initial temperatures: those of the search and a negative one
TestTemperatures == SearchTemperatures \cup {RatInt(-1)}

AcceptCall(T0, i, cur_energy, neighbor_energy, draw) ==
    /\ pc = "idle"
    /\ last_test = NoTest
    /\ \E temp \in {cooling_schedule(i, T0)} :
       \E test \in {AcceptTest(neighbor_energy, cur_energy, temp, draw)} :
           last_test' = [T0 |-> T0, t |-> i, temperature |-> temp,
                         current_energy |-> cur_energy,
                         neighbor_energy |-> neighbor_energy, draw |-> draw.u,
                         exc |-> test.exc, accept |-> test.accept,
                         exponent |-> test.exponent]
    /\ UNCHANGED <<all_config, val_data_set, heap, opt_var, best_param, best_energy, pc,
                   initial_temperature, iterations, t, current_params, current_energy,
                   neighbor_params, result, error, last_eval, n_eval, n_make_plan,
                   last_call, n_calls, incremented, best_seen, temperature, evaluated,
                   branches>>

InitAccept ==
    InitWith({c \in AllConfigs : c.planner_param[1].initial = 10 /\ c.planner_param[1].min = 0},
             DataSets(0))

NextAccept ==
    \E T0 \in TestTemperatures, i \in 0..MaxIter, cur_energy \in Energies,
       neighbor_energy \in Energies, draw \in Draws :
        AcceptCall(T0, i, cur_energy, neighbor_energy, draw)

SpecAccept == InitAccept /\ [][NextAccept]_vars

----------------------------------------------------------------------------
(* Properties *)

\* the configuration entry of attribute i of group g's use_attrs
UsedConfig(g) == SelectSeq(all_config[ConfigKey(g)], LAMBDA c : c.use_optimization)

\* the object group g stores: get_param()
Stored(g) == heap[get_param(opt_var[g])]

\* a step that is one direct increment call
IsDirectCall == n_calls' = n_calls + 1

\* C1: increment(diff, update=False) leaves every field of the group's
\* stored object as it was before the call; only update=True changes it.
C1_UncommittedKeepsStored ==
    [][(IsDirectCall /\ ~last_call'.update)
          => heap'[get_param(opt_var'[last_call'.group])] = Stored(last_call'.group)]_vars

\* C2: when simulated_annealing returns, the returned assignment has the
\* field values that were evaluated to the returned best cost, whatever was
\* accepted afterwards.
C2_ReturnedIsBestEvaluated ==
    pc = "done" => ValuesOf(heap, result[1]) = best_seen

\* every optimizable field of object obj of group g is within [min, max]
InRange(g, obj) ==
    \A i \in 1..Len(UsedConfig(g)) :
        /\ Fx(UsedConfig(g)[i].min) <= obj[UsedConfig(g)[i].key]
        /\ obj[UsedConfig(g)[i].key] <= Fx(UsedConfig(g)[i].max)

ValidRanges(g) ==
    \A i \in 1..Len(UsedConfig(g)) : UsedConfig(g)[i].min <= UsedConfig(g)[i].max

\* C3: with min <= max on every optimizable field of a group, after at least
\* one increment call on it, committed or not, every optimizable field of
\* the stored object and of the object the call returned is in [min, max].
C3_FieldsStayInRange ==
    \A g \in incremented :
        ValidRanges(g) =>
            /\ InRange(g, Stored(g))
            /\ last_call.group = g => InRange(g, heap[last_call.ret])

\* C3 witness: a field constructed above its max has been brought to max by
\* an uncommitted call
C3_Witness ==
    /\ all_config.planner_param[1].initial > all_config.planner_param[1].max
    /\ ValidRanges("planner_var")
    /\ last_call.group = "planner_var"
    /\ ~last_call.update
    /\ Stored("planner_var")["curve_weight"] = Fx(all_config.planner_param[1].max)

\* C4: after initialization best_energy <= current_energy, and best_energy
\* never increases from one step of the search to the next.
C4_BestBelowCurrentAndNonIncreasing ==
    /\ [](current_energy # None => RatLeq(best_energy, current_energy))
    /\ [][best_energy # None => RatLeq(best_energy', best_energy)]_vars

\* C4 witness: iterations have run and a neighbor has been accepted
C4_Witness ==
    /\ pc = "loop"
    /\ t >= 2
    /\ current_energy # None
    /\ ValuesOf(heap, current_params) # best_seen

\* the cost the aggregation rule gives for S found plans out of N scenarios
ClaimedCost(N, S, length_rates, direction_changes) ==
    RatAdd(RatAdd(RatMulInt(10, RatSub(RatInt(1), Rat(S, N))),
                  RatDivInt(length_rates, S)),
           Rat(10 * direction_changes, S))

\* C5: when the planner reports a found plan for S >= 1 of the N scenarios,
\* objective_function returns 10*(1 - S/N) + (sum of length ratios)/S
\* + 10*(sum of direction-change counts)/S.
C5_CostOfFoundPlans ==
    (last_eval.exc # "not_called" /\ last_eval.planner.found >= 1)
        => /\ last_eval.exc = "none"
           /\ last_eval.value =
                  ClaimedCost(Len(val_data_set), last_eval.planner.found,
                              last_eval.planner.length_rates,
                              last_eval.planner.direction_changes)

\* C6: objective_function returns exactly 1000, and raises nothing, whenever
\* the planner found a plan for no scenario, the empty scenario set included.
C6_PenaltyWhenNothingFound ==
    (last_eval.exc # "not_called" /\ last_eval.planner.found = 0)
        => /\ last_eval.exc = "none"
           /\ last_eval.value = RatInt(1000)

\* C6 witness: an evaluation in which the planner failed on every scenario
\* of a non-empty set, by returning false and by raising
C6_Witness ==
    /\ last_eval.exc = "none"
    /\ Len(val_data_set) >= 2
    /\ last_eval.planner.found = 0
    /\ last_eval.planner.raised >= 1
    /\ last_eval.planner.raised < Len(val_data_set)

Constructed(g) ==
    /\ opt_var[g].param_obj = ObjOf(g)
    /\ \A i \in 1..Len(all_config[ConfigKey(g)]) :
          heap[ObjOf(g)][all_config[ConfigKey(g)][i].key]
              = Fx(all_config[ConfigKey(g)][i].initial)

\* C8: with iterations = 0 simulated_annealing evaluates once, changes no
\* group and returns the initial assignment, with its constructed field
\* values, together with its evaluated cost.
C8_ZeroIterations ==
    (pc = "done" /\ iterations = 0 /\ n_calls = 0)
        => /\ n_eval = 1
           /\ \A g \in Groups : Constructed(g)
           /\ result[1] = <<ObjOf("planner_var"), ObjOf("astar_var"), ObjOf("vehicle_var")>>
           /\ result[2] = last_eval.value
           /\ last_eval.exc = "none"

\* C8 witness: the search has returned from a run with iterations = 0 and
\* initial_temperature = 200
C8_Witness ==
    /\ pc = "done"
    /\ iterations = 0
    /\ initial_temperature = RatInt(200)
    /\ n_calls = 0
    /\ Len(val_data_set) >= 1

RatMax(a, b) == IF RatLess(a, b) THEN b ELSE a
RatMin(a, b) == IF RatLess(b, a) THEN b ELSE a

\* clip(old + delta * (max - min) / 20, min, max) in exact arithmetic, for
\* the field of configuration entry c, old in fixed point and delta in
\* units of 1/DiffDen
ClaimedStep(c, old, delta) ==
    RatMin(RatMax(RatAdd(Rat(old, Scale),
                         RatDivInt(RatMulInt(c.max - c.min, Rat(delta, DiffDen)), 20)),
                  RatInt(c.min)),
           RatInt(c.max))

\* C9: one increment(diff, update=True) sets each optimizable field i of the
\* stored object to clip(old_i + diff_i * (max_i - min_i) / 20, min_i, max_i);
\* with min = 0, max = 20 and old = 10 a delta of +1 gives 11 and a delta of
\* +50 gives 20.
C9_CommittedStep ==
    [][(IsDirectCall /\ last_call'.update) =>
          LET g == last_call'.group
              diff == last_call'.diff
              cfg == UsedConfig(g)
              new == heap'[get_param(opt_var'[g])]
          IN  \A i \in 1..Len(cfg) :
                /\ Rat(new[cfg[i].key], Scale)
                       = ClaimedStep(cfg[i], Stored(g)[cfg[i].key], diff[i])
                /\ (cfg[i].min = 0 /\ cfg[i].max = 20
                      /\ Stored(g)[cfg[i].key] = Fx(10) /\ diff[i] = DiffDen)
                     => new[cfg[i].key] = Fx(11)
                /\ (cfg[i].min = 0 /\ cfg[i].max = 20
                      /\ Stored(g)[cfg[i].key] = Fx(10) /\ diff[i] = 50 * DiffDen)
                     => new[cfg[i].key] = Fx(20)]_vars

\* C9 witness: the field constructed as 10 in [0, 20] holds 11 after one
\* committed call with delta +1
C9_Witness ==
    /\ n_calls = 1
    /\ last_call.group = "planner_var"
    /\ last_call.update
    /\ last_call.diff = <<DiffDen>>
    /\ all_config.planner_param[1].initial = 10
    /\ all_config.planner_param[1].min = 0
    /\ all_config.planner_param[1].max = 20
    /\ Stored("planner_var")["curve_weight"] = Fx(11)

\* C10: every field declared with use_optimization false holds its declared
\* initial value after construction, after any increment calls and after
\* any iterations of the search.
C10_FixedFieldsKeepInitial ==
    \A g \in Groups :
        \A i \in 1..Len(all_config[ConfigKey(g)]) :
            ~all_config[ConfigKey(g)][i].use_optimization
                => heap[ObjOf(g)][all_config[ConfigKey(g)][i].key]
                       = Fx(all_config[ConfigKey(g)][i].initial)

\* C10 witness: after iterations of the search and a direct call on the
\* planner group its optimizable field has moved
C10_Witness ==
    /\ pc = "done"
    /\ iterations >= 1
    /\ last_call.group = "planner_var"
    /\ heap["PlannerCommonParam"]["curve_weight"] # Fx(all_config.planner_param[1].initial)

\* C11: constructing a parameter group from a configuration in which an
\* optimizable field has min > max fails, so no constructed group has an
\* optimizable field with min > max.
C11_DegenerateRangeRejected ==
    \A g \in Groups : ValidRanges(g)

\* a float greater than zero
Positive(x) == x # NaN /\ RatLess(RatInt(0), x)

\* a step that is one pass of the loop body of simulated_annealing
IsIteration == pc = "loop" /\ n_eval' = n_eval + 1

\* C12: for initial_temperature > 0 the cooling schedule is positive at
\* every iteration index and strictly smaller at a later index than at an
\* earlier one; the temperature of every iteration is positive and strictly
\* below that of the iteration before.
C12_TemperaturePositiveAndDecreasing ==
    /\ [](Positive(initial_temperature) =>
            \A i \in 0..MaxIter, j \in 0..MaxIter :
                /\ Positive(cooling_schedule(i, initial_temperature))
                /\ i < j => RatLess(cooling_schedule(j, initial_temperature),
                                    cooling_schedule(i, initial_temperature)))
    /\ [][(IsIteration /\ Positive(initial_temperature)) =>
            /\ Positive(temperature')
            /\ temperature # None => RatLess(temperature', temperature)]_vars

\* C12 witness: the second iteration of a run with initial_temperature = 200
\* has used temperature 100
C12_Witness ==
    /\ pc = "loop"
    /\ t = 2
    /\ initial_temperature = RatInt(200)
    /\ temperature = RatInt(100)

\* C13: when the planner finds a plan for a scenario whose goal is the start
\* position, objective_function raises nothing, counts the scenario as a
\* success with its direction changes, and adds 0 for it to the length-ratio
\* sum.
C13_ZeroDistanceSuccess ==
    (last_eval.exc # "not_called" /\ last_eval.planner.found_at_start >= 1)
        => /\ last_eval.exc = "none"
           /\ last_eval.total_result = last_eval.planner.found
           /\ last_eval.value =
                  ClaimedCost(Len(val_data_set), last_eval.planner.found,
                              last_eval.planner.length_rates,
                              last_eval.planner.direction_changes)

\* C14: after an accepted iteration the stored objects of the groups have the
\* field values of the neighbor that was passed to objective_function in
\* that iteration, and current_energy is the cost evaluated for it.
C14_AcceptedStoresEvaluated ==
    [][(IsIteration /\ "accept" \in branches') =>
          /\ [i \in 1..Len(GroupOrder) |-> heap'[get_param(opt_var'[GroupOrder[i]])]]
                 = evaluated'
          /\ current_energy' = last_eval'.value]_vars

\* C15: after a rejected iteration every field of every group's stored
\* object, current_energy, the field values of best_param and best_energy
\* are what they were when the iteration started.
C15_RejectedChangesNothing ==
    [][(IsIteration /\ "reject" \in branches') =>
          /\ \A g \in Groups : heap'[get_param(opt_var'[g])] = Stored(g)
          /\ current_energy' = current_energy
          /\ ValuesOf(heap', best_param') = ValuesOf(heap, best_param)
          /\ best_energy' = best_energy]_vars

\* C16: a complete run of simulated_annealing over N scenarios has called
\* makePlan iterations * N times.
C16_PlannerCallsPerIteration ==
    pc = "done" => n_make_plan = iterations * Len(val_data_set)

\* C16, amended: every objective_function call makes one makePlan call per
\* scenario, and a complete run, which evaluates the initial assignment and
\* then one neighbor per iteration, has called makePlan (iterations + 1) * N
\* times.
C16_PlannerCallsWithInitialEvaluation ==
    /\ last_eval.exc # "not_called" => last_eval.make_plan_calls = Len(val_data_set)
    /\ pc = "done" => n_make_plan = (iterations + 1) * Len(val_data_set)

\* C16 witness: a run of two iterations over one scenario has returned
C16_Witness ==
    /\ pc = "done"
    /\ iterations = 2
    /\ Len(val_data_set) = 1
    /\ n_make_plan = 3

\* ln of a draw of the model
LnOf(u) == (CHOOSE d \in Draws : d.u = u).ln

\* C17: with temperature > 0 a neighbor whose cost is at most the current
\* cost is accepted whatever the draw, and a neighbor with a greater cost is
\* accepted only when the draw is below
\* exp((current_energy - neighbor_energy) / temperature).
C17_MetropolisRule ==
    (last_test.exc # "not_called" /\ Positive(last_test.temperature)) =>
        /\ RatLeq(last_test.neighbor_energy, last_test.current_energy)
             => (last_test.exc = "none" /\ last_test.accept)
        /\ (RatLess(last_test.current_energy, last_test.neighbor_energy)
              /\ last_test.accept)
             => RatLess(LnOf(last_test.draw),
                        RatDiv(RatSub(last_test.current_energy, last_test.neighbor_energy),
                               last_test.temperature))

\* C17 witness: at temperature 100 a neighbor of cost 1000 has been accepted
\* against a current cost of 1, on the draw 0
C17_Witness ==
    /\ last_test.temperature = RatInt(100)
    /\ last_test.current_energy = RatInt(1)
    /\ last_test.neighbor_energy = RatInt(1000)
    /\ last_test.draw = RatInt(0)
    /\ last_test.accept

\* C18: whatever makePlan returns or raises on each scenario, total_result
\* is 0 and objective_function returns 1000, for every scenario set.
C18_AlwaysPenalty ==
    last_eval.exc # "not_called"
        => /\ last_eval.exc = "none"
           /\ last_eval.total_result = 0
           /\ last_eval.value = RatInt(1000)

\* C18 witness: the planner reported a plan for every scenario of a set of
\* at least two and the cost returned is 1000
C18_Witness ==
    /\ Len(val_data_set) >= 2
    /\ last_eval.planner.found = Len(val_data_set)
    /\ last_eval.value = RatInt(1000)

\* C19: with initial_temperature > 0 every iteration takes the acceptance
\* branch and not the best-update branch, and best_param and best_energy
\* stay what the initial evaluation made them.
C19_AlwaysAcceptedBestUnchanged ==
    /\ [][(IsIteration /\ Positive(initial_temperature)) => branches' = {"accept"}]_vars
    /\ [][(pc = "loop" /\ Positive(initial_temperature))
            => (best_energy' = best_energy /\ best_param' = best_param)]_vars

\* C19 witness: two iterations have run at initial_temperature 200, the
\* planner reporting a plan in the latest, and the latest was accepted
C19_Witness ==
    /\ pc = "loop"
    /\ t = 2
    /\ initial_temperature = RatInt(200)
    /\ last_eval.planner.found >= 1
    /\ branches = {"accept"}

\* what holds of one evaluation of the acceptance condition: math.exp is
\* called only with neighbor_energy >= current_energy, temperature > 0 and
\* an argument <= 0, and an improving neighbor is accepted without the call
ExpCalledSafely ==
    /\ last_test.exponent # None
         => /\ RatLeq(last_test.current_energy, last_test.neighbor_energy)
            /\ Positive(last_test.temperature)
            /\ last_test.exponent # NaN
            /\ RatLeq(last_test.exponent, RatInt(0))
            /\ last_test.exc = "none"
    /\ RatLess(last_test.neighbor_energy, last_test.current_energy)
         => (last_test.exc = "none" /\ last_test.accept /\ last_test.exponent = None)

====
